---------------------------- MODULE Spec2Model ----------------------------
(***************************************************************************)
(* A model of pubmed_search.py: Tools.search_pubmed and its two helpers,   *)
(* _fetch_pubmed_data (the esearch request, the esummary request and the   *)
(* extraction loop) and _format_results.                                   *)
(*                                                                         *)
(* A JSON object is a function from its keys (a record); "key in d" is     *)
(* key \in DOMAIN d.  A text built by f-strings is the sequence of the     *)
(* f-strings evaluated, each the sequence of its literal pieces and its    *)
(* interpolated values; the Python string is their concatenation.          *)
(***************************************************************************)
EXTENDS Integers, Sequences, FiniteSets, TLC

\* ------------------------------------------------------------- bounds
\* The longest identifier list the locator's response carries.
MaxIds == 2
\* How many times search_pubmed is invoked against the same responses.
MaxInvocations == 2

\* ---------------------------------------------------------- constants
\* Field(5, ..., ge=1, le=50): the declared range and default of max_results.
MinResults == 1
MaxResults == 50
DefaultResults == 5

\* ------------------------------------------------------------- inputs
Ids == {"111", "222"}

RECURSIVE SeqsUpTo(_, _)
SeqsUpTo(S, n) ==
    IF n = 0 THEN {<<>>}
    ELSE LET shorter == SeqsUpTo(S, n - 1)
         IN  shorter \cup {Append(s, x) : s \in shorter, x \in S}

IdLists == SeqsUpTo(Ids, MaxIds)

\* An optional key of a JSON object: absent, or present with one of vals.
Opt(k, vals) == {<<>>} \cup {k :> v : v \in vals}

Smith == [name |-> "A. Smith", authtype |-> "Author"]
Jones == [name |-> "B. Jones", authtype |-> "Author"]
EmptyName == [name |-> "", authtype |-> "Author"]
NoName == [authtype |-> "CollectiveName"]

PmidObj == [idtype |-> "pubmed", value |-> "111"]
DoiObj == [idtype |-> "doi", value |-> "10.1/x"]
EmptyDoiObj == [idtype |-> "doi", value |-> ""]

AuthorLists == {<<>>, <<EmptyName>>, <<Smith>>, <<Smith, NoName, EmptyName, Jones>>}
Dates == {"", "2023"}
Journals == {"", "Nature"}
ArticleIdLists == {<<>>, <<PmidObj>>, <<PmidObj, DoiObj>>, <<EmptyDoiObj, DoiObj>>}

\* Every combination of the optional metadata fields, each absent, empty or
\* filled; the title is present.
FieldArticles ==
    { [title |-> "Gene Editing Advances"] @@ a @@ d @@ j @@ x :
        a \in Opt("authors", AuthorLists), d \in Opt("pubdate", Dates),
        j \in Opt("fulljournalname", Journals),
        x \in Opt("articleids", ArticleIdLists) }

FullArticle ==
    [title |-> "Gene Editing Advances", authors |-> <<Smith>>, pubdate |-> "2023",
     fulljournalname |-> "Nature", articleids |-> <<DoiObj>>]
SparseArticle ==
    [title |-> "CRISPR Review", authors |-> <<>>, pubdate |-> "",
     fulljournalname |-> "", articleids |-> <<>>]
BareArticle == [title |-> "CRISPR Review"]
UntitledArticle == [pubdate |-> "2023", fulljournalname |-> "Nature"]

CoreArticles == {FullArticle, SparseArticle, BareArticle, UntitledArticle}

\* The entry of the esummary result for identifier id.
Entry(id, article) == ("uid" :> id) @@ article

\* The esummary results over a set of articles: any subset of the identifiers
\* keyed, each to any of the articles.
Results(articles) ==
    UNION { { [id \in S |-> Entry(id, pick[id])] : pick \in [S -> articles] }
            : S \in SUBSET Ids }

\* The esummary results that vary one identifier's article over every field
\* combination.
FieldResults ==
    { [id \in Ids |-> Entry(id, IF id = k THEN a ELSE SparseArticle)] :
        k \in Ids, a \in FieldArticles }

Failures == {[kind |-> "transport"], [kind |-> "http_status"], [kind |-> "bad_json"]}

OkBody(b) == [kind |-> "ok", body |-> b]

IdListBody(ids) ==
    [header |-> "esearch", esearchresult |-> [count |-> "2", idlist |-> ids]]

LocatorResponses ==
    Failures
    \cup {OkBody([header |-> "esearch"]),
          OkBody([header |-> "esearch", esearchresult |-> [ERROR |-> "bad term"]])}
    \cup {OkBody(IdListBody(ids)) : ids \in IdLists}

SummarizerResponses(results) ==
    Failures
    \cup {OkBody([header |-> "esummary"])}
    \cup {OkBody([header |-> "esummary", result |-> r]) : r \in results}

\* A call and the two responses the remote service gives it.
CoreFixtures ==
    [query : {"CRISPR", ""},
     max_results : {MinResults - 1, MinResults, MaxResults, MaxResults + 1},
     locator : LocatorResponses,
     summarizer : SummarizerResponses(Results(CoreArticles))]

FieldFixtures ==
    [query : {"CRISPR"},
     max_results : {DefaultResults},
     locator : {OkBody(IdListBody(ids)) : ids \in IdLists \ {<<>>}},
     summarizer : {OkBody([header |-> "esummary", result |-> r]) : r \in FieldResults}]

Fixtures == CoreFixtures \cup FieldFixtures

\* -------------------------------------------------------------- state
VARIABLES
    query,         \* the call's query
    max_results,   \* the call's max_results
    locator,       \* what the esearch request is answered with
    summarizer,    \* what the esummary request is answered with
    pc,            \* where the invocation stands
    invocation,    \* the number of the invocation
    requests,      \* the requests.get calls of this invocation, in order
    article_ids,   \* _fetch_pubmed_data's article_ids
    summaries,     \* _fetch_pubmed_data's summaries
    results,       \* _fetch_pubmed_data's results
    idx,           \* the position of the for loop in article_ids
    articles,      \* search_pubmed's articles
    exc,           \* the exception in flight
    ret,           \* what search_pubmed returned
    prev           \* what the invocation before returned

vars == <<query, max_results, locator, summarizer, pc, invocation, requests,
          article_ids, summaries, results, idx, articles, exc, ret, prev>>

fixture == <<query, max_results, locator, summarizer>>

NoReturn == <<>>
NoExc == [type |-> "", msg |-> ""]
NoDict == [k \in {} |-> <<>>]

\* ------------------------------------------------------- pure helpers
\* d.get(k, default)
Get(d, k, default) == IF k \in DOMAIN d THEN d[k] ELSE default

\* sep.join(strs)
RECURSIVE Join(_, _)
Join(strs, sep) ==
    IF strs = <<>> THEN ""
    ELSE IF Len(strs) = 1 THEN strs[1]
    ELSE strs[1] \o sep \o Join(Tail(strs), sep)

\* str(KeyError(key))
KeyErrorOf(key) == [type |-> "KeyError", msg |-> "'" \o key \o "'"]

\* The exception requests.get, raise_for_status or response.json raises.
FailureOf(response) ==
    CASE response.kind = "transport" ->
           [type |-> "ConnectionError", msg |-> "Connection refused"]
      [] response.kind = "http_status" ->
           [type |-> "HTTPError", msg |-> "500 Server Error"]
      [] response.kind = "bad_json" ->
           [type |-> "JSONDecodeError", msg |-> "Expecting value: line 1 column 1 (char 0)"]

\* author["name"] for author in authors if "name" in author and author["name"]
RECURSIVE AuthorNames(_)
AuthorNames(authors) ==
    IF authors = <<>> THEN <<>>
    ELSE LET author == Head(authors)
         IN  (IF "name" \in DOMAIN author /\ author["name"] # ""
              THEN <<author["name"]>> ELSE <<>>)
             \o AuthorNames(Tail(authors))

AuthorsOf(article) ==
    IF "authors" \in DOMAIN article
    THEN Join(AuthorNames(Get(article, "authors", <<>>)), ", ")
    ELSE ""

\* next((o["value"] for o in articleids if o["idtype"] == "doi"), "")
RECURSIVE FirstDoi(_)
FirstDoi(articleids) ==
    IF articleids = <<>> THEN ""
    ELSE IF Head(articleids)["idtype"] = "doi" THEN Head(articleids)["value"]
    ELSE FirstDoi(Tail(articleids))

DoiOf(article) == FirstDoi(Get(article, "articleids", <<>>))

UrlOf(article_id) == "https://pubmed.ncbi.nlm.nih.gov/" \o article_id \o "/"

\* The dict appended for article_id; article["title"] must exist.
MakeRecord(article_id, article) ==
    [title |-> article["title"],
     authors |-> AuthorsOf(article),
     pubdate |-> Get(article, "pubdate", ""),
     journal |-> Get(article, "fulljournalname", ""),
     doi |-> DoiOf(article),
     url |-> UrlOf(article_id)]

\* A variant that puts the newest record first: results.insert(0, record).
PrependResult(rs, record) == <<record>> \o rs

\* results.append(record)
AppendResult(rs, record) == Append(rs, record)

\* A variant that keeps one list across invocations (a list held by the object
\* or by a mutable default argument) instead of a fresh one.
SharedResults == results

\* results = []
EmptyResults == <<>>

\* A variant without the early return on an empty identifier list.
NoIdsNever(ids) == FALSE

\* if not article_ids
NoIds(ids) == ids = <<>>

\* The term of a request's parameters.
SearchRequest(q, n) ==
    [url |-> "esearch.fcgi",
     params |-> [db |-> "pubmed", term |-> q, retmode |-> "json", retmax |-> n]]

\* A variant that asks for one identifier's summary instead of the batch.
SummaryRequestFirst(ids) ==
    [url |-> "esummary.fcgi",
     params |-> [db |-> "pubmed", id |-> ids[1], retmode |-> "json"]]

SummaryRequest(ids) ==
    [url |-> "esummary.fcgi",
     params |-> [db |-> "pubmed", id |-> Join(ids, ","), retmode |-> "json"]]

\* ---------------------------------------------------------- formatter
\* A variant that joins journal and date without testing them.
JournalInfoUnchecked(article) ==
    <<Get(article, "journal", ""), Get(article, "pubdate", "")>>

JournalInfo(article) ==
    (IF Get(article, "journal", "") # "" THEN <<article["journal"]>> ELSE <<>>)
    \o (IF Get(article, "pubdate", "") # "" THEN <<article["pubdate"]>> ELSE <<>>)

\* The f-strings the loop body appends for the article at 0-based index i.
FormatArticle(i, article) ==
    << <<"## ", ToString(i + 1), ". ", Get(article, "title", "Untitled"), "\n\n">> >>
    \o (IF Get(article, "authors", "") # ""
        THEN << <<"**Authors:** ", article["authors"], "\n\n">> >> ELSE <<>>)
    \o (IF JournalInfo(article) # <<>>
        THEN << <<"**Published in:** ", Join(JournalInfo(article), " - "), "\n\n">> >>
        ELSE <<>>)
    \o (IF Get(article, "doi", "") # ""
        THEN << <<"**DOI:** ", article["doi"], "\n\n">> >> ELSE <<>>)
    \o << <<"**PubMed Link:** [View Article](", Get(article, "url", ""), ")\n\n">>,
          <<"---\n\n">> >>

RECURSIVE FormatFrom(_, _)
FormatFrom(i, arts) ==
    IF i >= Len(arts) THEN <<>>
    ELSE FormatArticle(i, arts[i + 1]) \o FormatFrom(i + 1, arts)

FormatResults(q, arts) ==
    << <<"# PubMed Search Results\n\n**Query:** ", q, "\n\n**Found:** ",
         ToString(Len(arts)), " results\n\n">> >>
    \o FormatFrom(0, arts)

NoResultsText(q) == << <<"No PubMed results found for query: '", q, "'.">> >>

ErrorText(e) == << <<"Error in PubMed search: ", e.msg>> >>

\* A variant whose handler is "except requests.RequestException".
CatchesRequestErrors(e) == e.type \in {"ConnectionError", "HTTPError"}

\* except Exception: every exception the helpers raise is an Exception.
Catches(e) == TRUE

\* --------------------------------------------------------------- init
Init ==
    /\ \E f \in Fixtures :
         /\ query = f.query
         /\ max_results = f.max_results
         /\ locator = f.locator
         /\ summarizer = f.summarizer
    /\ pc = "idle"
    /\ invocation = 0
    /\ requests = <<>>
    /\ article_ids = <<>>
    /\ summaries = NoDict
    /\ results = <<>>
    /\ idx = 1
    /\ articles = <<>>
    /\ exc = NoExc
    /\ ret = NoReturn
    /\ prev = NoReturn

\* ------------------------------------------------------------ actions
\* raise e, inside search_pubmed's try block.
Raise(e) ==
    /\ exc' = e
    /\ pc' = IF Catches(e) THEN "except" ELSE "propagated"

\* The caller invokes search_pubmed(query, max_results).
Call ==
    /\ pc \in {"idle", "done"}
    /\ invocation < MaxInvocations
    /\ invocation' = invocation + 1
    /\ prev' = ret
    /\ ret' = NoReturn
    /\ exc' = NoExc
    /\ requests' = <<>>
    /\ pc' = "esearch"
    /\ UNCHANGED <<fixture, article_ids, summaries, results, idx, articles>>

\* _fetch_pubmed_data up to the test of article_ids.
Esearch ==
    /\ pc = "esearch"
    /\ requests' = Append(requests, SearchRequest(query, max_results))
    /\ IF locator.kind # "ok"
       THEN Raise(FailureOf(locator)) /\ UNCHANGED <<article_ids, articles>>
       ELSE LET search_data == locator.body IN
            IF "esearchresult" \notin DOMAIN search_data
            THEN Raise(KeyErrorOf("esearchresult")) /\ UNCHANGED <<article_ids, articles>>
            ELSE IF "idlist" \notin DOMAIN search_data["esearchresult"]
            THEN Raise(KeyErrorOf("idlist")) /\ UNCHANGED <<article_ids, articles>>
            ELSE /\ article_ids' = search_data["esearchresult"]["idlist"]
                 /\ IF NoIds(article_ids')
                    THEN articles' = <<>> /\ pc' = "check"
                    ELSE pc' = "esummary" /\ UNCHANGED articles
                 /\ UNCHANGED exc
    /\ UNCHANGED <<fixture, invocation, summaries, results, idx, ret, prev>>

\* _fetch_pubmed_data from the esummary request to results = [].
Esummary ==
    /\ pc = "esummary"
    /\ requests' = Append(requests, SummaryRequest(article_ids))
    /\ IF summarizer.kind # "ok"
       THEN Raise(FailureOf(summarizer)) /\ UNCHANGED <<summaries, results, idx>>
       ELSE IF "result" \notin DOMAIN summarizer.body
       THEN Raise(KeyErrorOf("result")) /\ UNCHANGED <<summaries, results, idx>>
       ELSE /\ summaries' = summarizer.body["result"]
            /\ results' = EmptyResults
            /\ idx' = 1
            /\ pc' = "loop"
            /\ UNCHANGED exc
    /\ UNCHANGED <<fixture, invocation, article_ids, articles, ret, prev>>

\* A variant of the loop that skips an identifier the summaries lack
\* (summaries.get(article_id), continue).
LoopSkipMissing ==
    /\ pc = "loop"
    /\ LET article_id == article_ids[idx]
           found == article_id \in DOMAIN summaries
       IN
       IF found /\ "title" \notin DOMAIN summaries[article_id]
       THEN Raise(KeyErrorOf("title")) /\ UNCHANGED <<results, idx, articles>>
       ELSE /\ results' = IF found
                          THEN AppendResult(results,
                                            MakeRecord(article_id, summaries[article_id]))
                          ELSE results
            /\ idx' = idx + 1
            /\ IF idx = Len(article_ids)
               THEN articles' = results' /\ pc' = "check"
               ELSE pc' = "loop" /\ UNCHANGED articles
            /\ UNCHANGED exc
    /\ UNCHANGED <<fixture, invocation, requests, article_ids, summaries, ret, prev>>

\* One iteration of "for article_id in article_ids", and the return after the last.
Loop ==
    /\ pc = "loop"
    /\ LET article_id == article_ids[idx] IN
       IF article_id \notin DOMAIN summaries
       THEN Raise(KeyErrorOf(article_id)) /\ UNCHANGED <<results, idx, articles>>
       ELSE LET article == summaries[article_id] IN
            IF "title" \notin DOMAIN article
            THEN Raise(KeyErrorOf("title")) /\ UNCHANGED <<results, idx, articles>>
            ELSE /\ results' = AppendResult(results, MakeRecord(article_id, article))
                 /\ idx' = idx + 1
                 /\ IF idx = Len(article_ids)
                    THEN articles' = results' /\ pc' = "check"
                    ELSE pc' = "loop" /\ UNCHANGED articles
                 /\ UNCHANGED exc
    /\ UNCHANGED <<fixture, invocation, requests, article_ids, summaries, ret, prev>>

\* search_pubmed: if not articles.
Check ==
    /\ pc = "check"
    /\ IF articles = <<>>
       THEN ret' = NoResultsText(query) /\ pc' = "done"
       ELSE pc' = "format" /\ UNCHANGED ret
    /\ UNCHANGED <<fixture, invocation, requests, article_ids, summaries, results,
                   idx, articles, exc, prev>>

\* search_pubmed: return self._format_results(query, articles).
Format ==
    /\ pc = "format"
    /\ ret' = FormatResults(query, articles)
    /\ pc' = "done"
    /\ UNCHANGED <<fixture, invocation, requests, article_ids, summaries, results,
                   idx, articles, exc, prev>>

\* search_pubmed: except Exception as e.
Except ==
    /\ pc = "except"
    /\ ret' = ErrorText(exc)
    /\ pc' = "done"
    /\ UNCHANGED <<fixture, invocation, requests, article_ids, summaries, results,
                   idx, articles, exc, prev>>

Next == Call \/ Esearch \/ Esummary \/ Loop \/ Check \/ Format \/ Except

Spec == Init /\ [][Next]_vars

\* ------------------------------------------------- reading the state
\* The locator's response carries an identifier list.
LocatorOk ==
    /\ locator.kind = "ok"
    /\ "esearchresult" \in DOMAIN locator.body
    /\ "idlist" \in DOMAIN locator.body["esearchresult"]

LocatorIds == locator.body["esearchresult"]["idlist"]

\* The summarizer's response carries a result object.
SummarizerOk == summarizer.kind = "ok" /\ "result" \in DOMAIN summarizer.body

Summary == summarizer.body["result"]

\* Both requests are answered well and the locator found something.
BothOk == LocatorOk /\ LocatorIds # <<>> /\ SummarizerOk

AllKeyed == \A k \in 1..Len(LocatorIds) : LocatorIds[k] \in DOMAIN Summary

AllTitled ==
    \A k \in 1..Len(LocatorIds) :
        LocatorIds[k] \in DOMAIN Summary => "title" \in DOMAIN Summary[LocatorIds[k]]

\* One of the remote outcomes a request fails on.
RemoteFailed == ~LocatorOk \/ (LocatorIds # <<>> /\ ~SummarizerOk)

IsErrorText(t) == Len(t) = 1 /\ t[1][1] = "Error in PubMed search: "
IsNoResultsText(t) == Len(t) = 1 /\ t[1][1] = "No PubMed results found for query: '"
IsReport(t) == Len(t) >= 1 /\ t[1][1] = "# PubMed Search Results\n\n**Query:** "

Returned == pc = "done"

\* The positions of a report's section headings, and the k-th of them.
Headings(t) == {p \in 1..Len(t) : t[p][1] = "## "}
HeadingAt(t, k) ==
    CHOOSE p \in Headings(t) : Cardinality({h \in Headings(t) : h <= p}) = k

\* The section that starts at heading p: the blocks up to its separator.
SectionEnd(t, p) ==
    CHOOSE q \in p..Len(t) :
        /\ t[q][1] = "---\n\n"
        /\ \A m \in p..(q - 1) : t[m][1] # "---\n\n"
Section(t, k) == SubSeq(t, HeadingAt(t, k), SectionEnd(t, HeadingAt(t, k)))

\* The values a section's lines of one kind print.
Lines(sec, label) == SelectSeq(sec, LAMBDA b : b[1] = label)

SentRequests(url) == SelectSeq(requests, LAMBDA r : r.url = url)

\* ----------------------------------------------------------------- C1
\* C1: search_pubmed always returns a string and never raises: no exception
\* leaves the try block uncaught, every finished call has returned a text, and
\* a call in which a remote call failed (transport, HTTP status, unparseable
\* body, missing field) or in which any exception was raised has returned
\* "Error in PubMed search: " followed by the exception's message.
C1_AlwaysReturnsText ==
    /\ pc # "propagated"
    /\ Returned => IsErrorText(ret) \/ IsNoResultsText(ret) \/ IsReport(ret)
    /\ Returned /\ RemoteFailed => exc # NoExc
    /\ Returned /\ exc # NoExc =>
           ret = << <<"Error in PubMed search: ", exc.msg>> >>
    /\ exc # NoExc => pc \in {"except", "done"}

C1_Witness ==
    /\ Returned
    /\ LocatorOk /\ LocatorIds # <<>>
    /\ summarizer.kind = "ok" /\ "result" \notin DOMAIN summarizer.body
    /\ ret = << <<"Error in PubMed search: ", "'result'">> >>

\* ----------------------------------------------------------------- C2
\* C2: when the locator answers with an empty identifier list, no esummary
\* request is issued, the formatter is not run, no exception is raised, and
\* the call returns the fixed no-results message, not an error text.
C2_EmptyResultPath ==
    LocatorOk /\ LocatorIds = <<>> =>
        /\ SentRequests("esummary.fcgi") = <<>>
        /\ pc \notin {"esummary", "loop", "format", "except", "propagated"}
        /\ exc = NoExc
        /\ Returned =>
             /\ ret = << <<"No PubMed results found for query: '", query, "'.">> >>
             /\ ~IsErrorText(ret)

C2_Witness ==
    /\ Returned
    /\ LocatorOk /\ LocatorIds = <<>>
    /\ Len(requests) = 1
    /\ IsNoResultsText(ret)

\* ----------------------------------------------------------------- C3
\* C3: a call whose max_results lies outside [1,50] issues no request.
C3_RejectsOutOfRange ==
    max_results \notin MinResults..MaxResults => requests = <<>>

\* ----------------------------------------------------------------- C4
\* C4: the records are built in the order of the locator's identifiers: while
\* the loop runs the k-th record built is the one of the k-th identifier, the
\* finished sequence is as long as the identifier list, and the report's
\* sections are numbered 1..n in that order, the k-th carrying the k-th
\* identifier's title and link. A response with a titled entry for each
\* identifier always yields that report.
C4_OrderPreserved ==
    /\ pc = "loop" =>
         /\ Len(results) = idx - 1
         /\ idx <= Len(article_ids)
    /\ pc \in {"loop", "check", "format"} \/ (Returned /\ IsReport(ret)) =>
         /\ article_ids = LocatorIds
         /\ \A k \in 1..Len(results) :
              /\ results[k].url = "https://pubmed.ncbi.nlm.nih.gov/" \o LocatorIds[k] \o "/"
              /\ results[k].title = Summary[LocatorIds[k]]["title"]
    /\ pc = "format" \/ (Returned /\ IsReport(ret)) =>
         /\ articles = results
         /\ Len(articles) = Len(LocatorIds)
    /\ Returned /\ IsReport(ret) =>
         /\ Cardinality(Headings(ret)) = Len(LocatorIds)
         /\ \A k \in 1..Len(LocatorIds) :
              LET sec == Section(ret, k) IN
              /\ sec[1] = <<"## ", ToString(k), ". ", Summary[LocatorIds[k]]["title"], "\n\n">>
              /\ Lines(sec, "**PubMed Link:** [View Article](") =
                   << <<"**PubMed Link:** [View Article](",
                        "https://pubmed.ncbi.nlm.nih.gov/" \o LocatorIds[k] \o "/",
                        ")\n\n">> >>
    /\ Returned /\ BothOk /\ AllKeyed /\ AllTitled => IsReport(ret)

C4_Witness ==
    /\ Returned
    /\ LocatorOk /\ LocatorIds = <<"222", "111">>
    /\ IsReport(ret)
    /\ Summary["222"]["title"] # Summary["111"]["title"]
    /\ Section(ret, 1)[1][4] = Summary["222"]["title"]

\* ----------------------------------------------------------------- C5
\* C5: for max_results in [1,50] the esearch request carries retmax =
\* max_results and the record sequence is never longer than max_results.
C5_LimitRespected ==
    max_results \in MinResults..MaxResults =>
        /\ \A k \in 1..Len(requests) :
             requests[k].url = "esearch.fcgi" => requests[k].params.retmax = max_results
        /\ pc \in {"loop", "check", "format"} => Len(results) <= max_results
        /\ pc \in {"check", "format"} => Len(articles) <= max_results
        /\ Returned /\ IsReport(ret) => Cardinality(Headings(ret)) <= max_results

\* ----------------------------------------------------------------- C6
\* A key of the upstream entry that is present and not empty.
Filled(entry, key) == key \in DOMAIN entry /\ entry[key] # ""

\* A list-valued key of the upstream entry that is present and not empty.
Listed(entry, key) == key \in DOMAIN entry /\ Len(entry[key]) > 0

\* The entry lists an author with a non-empty name.
HasNamedAuthor(entry) ==
    /\ Listed(entry, "authors")
    /\ \E n \in 1..Len(entry["authors"]) :
         Filled(entry["authors"][n], "name")

\* The entry lists an identifier of type doi.
HasDoiId(entry) ==
    /\ Listed(entry, "articleids")
    /\ \E n \in 1..Len(entry["articleids"]) : entry["articleids"][n]["idtype"] = "doi"

\* C6: omitted or empty authors, fulljournalname, pubdate or articleids never
\* make the search fail, and in the report the section of each record has an
\* Authors line iff its authors are non-empty, a Published-in line iff journal
\* or date is non-empty (the non-empty ones joined by " - "), a DOI line iff
\* its doi is non-empty, and exactly one PubMed Link line; a field the upstream
\* entry omits, or leaves empty, yields no line and no placeholder.
C6_MissingFieldsTolerated ==
    /\ BothOk /\ AllKeyed /\ AllTitled =>
         /\ exc = NoExc
         /\ pc \notin {"except", "propagated"}
         /\ Returned => IsReport(ret)
    /\ Returned /\ IsReport(ret) =>
         \A k \in 1..Len(articles) :
            LET sec == Section(ret, k)
                rec == articles[k]
                entry == Summary[LocatorIds[k]]
                authors == Lines(sec, "**Authors:** ")
                published == Lines(sec, "**Published in:** ")
                doi == Lines(sec, "**DOI:** ")
                link == Lines(sec, "**PubMed Link:** [View Article](")
            IN
            /\ authors = IF rec.authors # ""
                         THEN << <<"**Authors:** ", rec.authors, "\n\n">> >> ELSE <<>>
            /\ published =
                 IF rec.journal # "" /\ rec.pubdate # ""
                 THEN << <<"**Published in:** ", rec.journal \o " - " \o rec.pubdate, "\n\n">> >>
                 ELSE IF rec.journal # ""
                 THEN << <<"**Published in:** ", rec.journal, "\n\n">> >>
                 ELSE IF rec.pubdate # ""
                 THEN << <<"**Published in:** ", rec.pubdate, "\n\n">> >>
                 ELSE <<>>
            /\ doi = IF rec.doi # "" THEN << <<"**DOI:** ", rec.doi, "\n\n">> >> ELSE <<>>
            /\ Len(link) = 1
            /\ Len(sec) = 3 + Len(authors) + Len(published) + Len(doi)
            /\ ~HasNamedAuthor(entry) => authors = <<>>
            /\ HasNamedAuthor(entry) => Len(authors) = 1
            /\ (~Filled(entry, "fulljournalname") /\ ~Filled(entry, "pubdate")) <=>
                   published = <<>>
            /\ Filled(entry, "fulljournalname") <=> rec.journal # ""
            /\ Filled(entry, "pubdate") <=> rec.pubdate # ""
            /\ ~HasDoiId(entry) => doi = <<>>
            /\ \A n \in 1..Len(sec) : \A m \in 1..Len(sec[n]) : sec[n][m] \notin {"", "None"}

C6_Witness ==
    /\ Returned /\ IsReport(ret)
    /\ LocatorIds = <<"111", "222">>
    /\ DOMAIN Summary["111"] = {"uid", "title", "fulljournalname"}
    /\ Summary["111"]["fulljournalname"] = "Nature"
    /\ Section(ret, 1) =
         << <<"## ", "1", ". ", "Gene Editing Advances", "\n\n">>,
            <<"**Published in:** ", "Nature", "\n\n">>,
            <<"**PubMed Link:** [View Article](", "https://pubmed.ncbi.nlm.nih.gov/111/", ")\n\n">>,
            <<"---\n\n">> >>

\* ----------------------------------------------------------------- C7
\* C7: an entry without a title does not make the search fail: when
\* max_results is in range, both requests are answered, the locator returned no
\* more identifiers than asked for and every identifier has an entry, the call
\* returns a report with a numbered section for each identifier.
C7_UntitledTolerated ==
    /\ Returned /\ BothOk /\ AllKeyed
    /\ max_results \in MinResults..MaxResults
    /\ Len(LocatorIds) <= max_results
    =>
        /\ IsReport(ret)
        /\ Cardinality(Headings(ret)) = Len(LocatorIds)

\* ----------------------------------------------------------------- C8
\* C8: when the esummary result lacks an entry for an identifier of the
\* locator's list, the loop never passes that identifier, no record sequence
\* reaches the caller or the formatter, and the call returns an error text.
C8_MissingEntryIsError ==
    BothOk /\ ~AllKeyed =>
        /\ pc \notin {"check", "format", "propagated"}
        /\ pc = "loop" => \A k \in 1..(idx - 1) : article_ids[k] \in DOMAIN summaries
        /\ Returned => IsErrorText(ret) /\ ~IsReport(ret)

C8_Witness ==
    /\ Returned
    /\ BothOk
    /\ LocatorIds = <<"111", "222">>
    /\ DOMAIN Summary = {"111"}
    /\ "title" \in DOMAIN Summary["111"]
    /\ ret = << <<"Error in PubMed search: ", "'222'">> >>

\* ----------------------------------------------------------------- C9
\* C9: with the responses fixed, a second invocation with the same arguments
\* returns the same text as the first: nothing an invocation leaves behind
\* changes what the next one returns.
C9_SameTextAgain ==
    Returned /\ invocation >= 2 => ret = prev

C9_Witness ==
    /\ Returned /\ invocation = 2
    /\ IsReport(ret) /\ Len(articles) = 2
    /\ ret = prev

\* ---------------------------------------------------------------- C10
\* C10: an invocation issues at most two requests: the esearch request first
\* and exactly once, then at most one esummary request, which carries the whole
\* comma-joined identifier list and is issued only when the locator answered
\* with a non-empty list; the formatter runs only after the summarizer
\* answered; a failed locator request is followed by no request.
C10_CallOrdering ==
    /\ Len(requests) <= 2
    /\ pc \in {"idle", "esearch"} => requests = <<>>
    /\ pc \notin {"idle", "esearch"} =>
         /\ Len(requests) >= 1
         /\ requests[1] = [url |-> "esearch.fcgi",
                           params |-> [db |-> "pubmed", term |-> query,
                                       retmode |-> "json", retmax |-> max_results]]
    /\ pc = "esummary" => Len(requests) = 1
    /\ Len(requests) = 2 =>
         /\ LocatorOk /\ LocatorIds # <<>>
         /\ requests[2].url = "esummary.fcgi"
         /\ requests[2].params.id = Join(LocatorIds, ",")
         /\ pc \notin {"idle", "esearch", "esummary"}
    /\ pc \in {"loop", "format"} \/ (Returned /\ IsReport(ret)) =>
         Len(requests) = 2 /\ SummarizerOk
    /\ ~LocatorOk => Len(requests) <= 1

C10_Witness ==
    /\ Returned /\ IsReport(ret)
    /\ Len(requests) = 2
    /\ requests[2].params.id = "111,222"

=============================================================================
